---------------------------- MODULE Spec2Model ----------------------------
(***************************************************************************)
(* FinAML: the instrument records of finaml_types.py and the five          *)
(* valuation functions of finaml_operations.py (duplicated in main.py).    *)
(*                                                                         *)
(* Numbers are exact rationals <<numerator, denominator>> in lowest terms  *)
(* with a positive denominator.  A call ends in one of Python's outcomes:  *)
(* a returned number or dict, a returned None, or a raised exception.      *)
(***************************************************************************)
EXTENDS Integers, Sequences, FiniteSets

VARIABLES op, args, result, calls

vars == <<op, args, result, calls>>

---------------------------------------------------------------------------
(* Bounds of the explored inputs.                                          *)

MaxAmount == 2
MaxRateNum == 2
MaxRateDen == 2
MaxPeriods == 3
MaxCashFlow == 3
MaxPortfolio == 3
MaxRange == 3
MaxCalls == 2

---------------------------------------------------------------------------
(* Python numbers and their operators.                                     *)

Abs(n) == IF n < 0 THEN -n ELSE n

RECURSIVE GCD(_, _)
GCD(a, b) == IF b = 0 THEN a ELSE GCD(b, a % b)

Norm(n, d) ==
    LET g == GCD(Abs(n), Abs(d))
        s == IF d < 0 THEN -1 ELSE 1
    IN  <<(s * n) \div g, (s * d) \div g>>

Num(n) == <<n, 1>>
Zero == Num(0)
One == Num(1)

RAdd(a, b) ==
    LET g == GCD(a[2], b[2])
    IN  Norm(a[1] * (b[2] \div g) + b[1] * (a[2] \div g), (a[2] \div g) * b[2])

RMul(a, b) ==
    LET g1 == GCD(Abs(a[1]), b[2])
        g2 == GCD(Abs(b[1]), a[2])
    IN  Norm((a[1] \div g1) * (b[1] \div g2), (a[2] \div g2) * (b[2] \div g1))

RECURSIVE IPow(_, _)
IPow(n, e) == IF e = 0 THEN 1 ELSE n * IPow(n, e - 1)

RPowZeroBase(x, e) == IF x[1] = 0 THEN <<0, 1>> ELSE <<IPow(x[1], e), IPow(x[2], e)>>

\* x ** e for an integer e >= 0; Python's 0 ** 0 and 0.0 ** 0 are 1.
RPow(x, e) == <<IPow(x[1], e), IPow(x[2], e)>>

\* The outcomes of a call.
Val(v) == [kind |-> "value", val |-> v]

Raise(e) == [kind |-> e, val |-> <<>>]

None == [kind |-> "None", val |-> <<>>]
Pending == [kind |-> "pending", val |-> <<>>]

\* a / b: Python raises ZeroDivisionError for a zero divisor, int or float.
PyDiv(a, b) ==
    IF b[1] = 0 THEN Raise("ZeroDivisionError") ELSE Val(RMul(a, Norm(b[2], b[1])))

\* sum(iterable): start at 0, add the items left to right; the first item
\* that raised ends the sum with its exception, and 0 + None is a TypeError.
RECURSIVE PySumFrom(_, _, _)
PySumFrom(acc, items, i) ==
    IF i > Len(items) THEN Val(acc)
    ELSE IF items[i].kind = "value" THEN PySumFrom(RAdd(acc, items[i].val), items, i + 1)
    ELSE IF items[i].kind = "None" THEN Raise("TypeError")
    ELSE items[i]

PySum(items) == PySumFrom(Zero, items, 1)

---------------------------------------------------------------------------
(* finaml_types.py                                                         *)

FinancialInstrument == [cls |-> "FinancialInstrument"]

Stock(ticker_symbol, current_price) ==
    [cls |-> "Stock", ticker_symbol |-> ticker_symbol, current_price |-> current_price]

Bond(ticker_symbol, face_value, coupon_rate) ==
    [cls |-> "Bond", ticker_symbol |-> ticker_symbol, face_value |-> face_value,
     coupon_rate |-> coupon_rate]

Option(option_type, underlying_asset, strike_price, expiration_date) ==
    [cls |-> "Option", option_type |-> option_type, underlying_asset |-> underlying_asset,
     strike_price |-> strike_price, expiration_date |-> expiration_date]

---------------------------------------------------------------------------
(* finaml_operations.py                                                    *)

StockGrowth == RAdd(One, <<1, 20>>)

present_value_multiplies(financial_instrument) ==
    IF financial_instrument.cls = "Stock" THEN Val(financial_instrument.current_price)
    ELSE IF financial_instrument.cls = "Bond"
        THEN Val(RMul(financial_instrument.face_value,
                      RAdd(One, financial_instrument.coupon_rate)))
    ELSE IF financial_instrument.cls = "Option" THEN Val(Zero)
    ELSE None

present_value(financial_instrument) ==
    IF financial_instrument.cls = "Stock" THEN Val(financial_instrument.current_price)
    ELSE IF financial_instrument.cls = "Bond"
        THEN PyDiv(financial_instrument.face_value,
                   RAdd(One, financial_instrument.coupon_rate))
    ELSE IF financial_instrument.cls = "Option" THEN Val(Zero)
    ELSE None

future_value_extra_period(financial_instrument, time_period) ==
    IF financial_instrument.cls = "Stock"
        THEN Val(RMul(financial_instrument.current_price, RPow(StockGrowth, time_period + 1)))
    ELSE IF financial_instrument.cls = "Bond"
        THEN Val(RMul(financial_instrument.face_value,
                      RPow(RAdd(One, financial_instrument.coupon_rate), time_period + 1)))
    ELSE IF financial_instrument.cls = "Option" THEN Val(Zero)
    ELSE None

future_value(financial_instrument, time_period) ==
    IF financial_instrument.cls = "Stock"
        THEN Val(RMul(financial_instrument.current_price, RPow(StockGrowth, time_period)))
    ELSE IF financial_instrument.cls = "Bond"
        THEN Val(RMul(financial_instrument.face_value,
                      RPow(RAdd(One, financial_instrument.coupon_rate), time_period)))
    ELSE IF financial_instrument.cls = "Option" THEN Val(Zero)
    ELSE None

simulate_portfolio_distinct(portfolio) ==
    PySum([i \in 1..Len(portfolio) |->
              IF \E j \in 1..(i - 1) : portfolio[j] = portfolio[i]
              THEN Val(Zero) ELSE present_value(portfolio[i])])

simulate_portfolio(portfolio) ==
    PySum([i \in 1..Len(portfolio) |-> present_value(portfolio[i])])

calculate_npv_from_one(cash_flow, discount_rate) ==
    PySum([k \in 1..Len(cash_flow) |->
              PyDiv(cash_flow[k], RPow(RAdd(One, discount_rate), k))])

\* enumerate() counts from 0: the item at position k of the sequence has i = k - 1.
calculate_npv(cash_flow, discount_rate) ==
    PySum([k \in 1..Len(cash_flow) |->
              PyDiv(cash_flow[k], RPow(RAdd(One, discount_rate), k - 1))])

\* A dict is the sequence of its <<key, value>> items in insertion order.
DictKeys(d) == {d[i][1] : i \in 1..Len(d)}

DictSetMovesToEnd(d, key, value) ==
    Append(SelectSeq(d, LAMBDA item : item[1] # key), <<key, value>>)

\* d[key] = value: a key already present keeps its place and takes the value.
DictSet(d, key, value) ==
    IF key \in DictKeys(d)
    THEN [i \in 1..Len(d) |-> IF d[i][1] = key THEN <<key, value>> ELSE d[i]]
    ELSE Append(d, <<key, value>>)

RECURSIVE DictComprehension(_, _, _, _)
DictComprehension(d, cash_flow, discount_rate_range, i) ==
    IF i > Len(discount_rate_range) THEN Val(d)
    ELSE LET rate == discount_rate_range[i]
             npv == calculate_npv(cash_flow, rate)
         IN  IF npv.kind = "value"
             THEN DictComprehension(DictSet(d, rate, npv.val), cash_flow,
                                    discount_rate_range, i + 1)
             ELSE npv

sensitivity_analysis(cash_flow, discount_rate_range) ==
    DictComprehension(<<>>, cash_flow, discount_rate_range, 1)

---------------------------------------------------------------------------
(* The caller: it builds the arguments of one operation (Init) and calls   *)
(* the operation on them, possibly again on the same objects.              *)

SeqsUpTo(S, n) == UNION {[1..k -> S] : k \in 0..n}

Amounts == {Num(n) : n \in (-MaxAmount)..MaxAmount}

Rates == {Norm(n, d) : n \in (-MaxRateNum)..MaxRateNum, d \in 1..MaxRateDen}

\* The values finaml_example.main passes to calculate_npv.
ExampleCashFlow == <<Num(-100), Num(20), Num(30), Num(40), Num(50)>>
ExampleRate == <<1, 10>>

Instruments ==
    {Stock("AAPL", p) : p \in Amounts}
    \cup {Bond("XYZ", f, c) : f \in Amounts, c \in Rates}
    \cup {Option(t, "AAPL", Num(160), "2023-12-31") : t \in {"Call", "Put"}}
    \cup {FinancialInstrument}

PortfolioInstruments ==
    {Stock("AAPL", Num(2)), Bond("XYZ", Num(2), <<-1, 2>>), Bond("XYZ", Num(1), Num(-1)),
     Option("Call", "AAPL", Num(160), "2023-12-31"), FinancialInstrument}

CashFlows == SeqsUpTo(Amounts, MaxCashFlow)

SweepCashFlows == {<<>>, <<Num(-1)>>, <<Num(-2), Num(1)>>, <<Num(-2), Num(0), Num(2)>>}
SweepRates == {Num(-1), Zero, <<1, 2>>, One}

ArgsOf(o) ==
    CASE o = "present_value" -> {[financial_instrument |-> fi] : fi \in Instruments}
      [] o = "future_value" ->
            {[financial_instrument |-> fi, time_period |-> n] :
                fi \in Instruments, n \in 0..MaxPeriods}
      [] o = "simulate_portfolio" ->
            {[portfolio |-> p] : p \in SeqsUpTo(PortfolioInstruments, MaxPortfolio)}
      [] o = "calculate_npv" ->
            {[cash_flow |-> cf, discount_rate |-> r] : cf \in CashFlows, r \in Rates}
            \cup {[cash_flow |-> ExampleCashFlow, discount_rate |-> ExampleRate]}
      [] o = "sensitivity_analysis" ->
            {[cash_flow |-> cf, discount_rate_range |-> rr] :
                cf \in SweepCashFlows, rr \in SeqsUpTo(SweepRates, MaxRange)}

Ops == {"present_value", "future_value", "simulate_portfolio", "calculate_npv",
        "sensitivity_analysis"}

Init ==
    /\ op \in Ops
    /\ args \in ArgsOf(op)
    /\ result = Pending
    /\ calls = 0

PresentValue ==
    /\ op = "present_value"
    /\ calls < MaxCalls
    /\ result' = present_value(args.financial_instrument)
    /\ calls' = calls + 1
    /\ UNCHANGED <<op, args>>

FutureValue ==
    /\ op = "future_value"
    /\ calls < MaxCalls
    /\ result' = future_value(args.financial_instrument, args.time_period)
    /\ calls' = calls + 1
    /\ UNCHANGED <<op, args>>

SimulatePortfolio ==
    /\ op = "simulate_portfolio"
    /\ calls < MaxCalls
    /\ result' = simulate_portfolio(args.portfolio)
    /\ calls' = calls + 1
    /\ UNCHANGED <<op, args>>

CalculateNpvConsumes ==
    /\ op = "calculate_npv"
    /\ calls < MaxCalls
    /\ result' = calculate_npv(args.cash_flow, args.discount_rate)
    /\ args' = [args EXCEPT !.cash_flow = <<>>]
    /\ calls' = calls + 1
    /\ UNCHANGED op

CalculateNpv ==
    /\ op = "calculate_npv"
    /\ calls < MaxCalls
    /\ result' = calculate_npv(args.cash_flow, args.discount_rate)
    /\ calls' = calls + 1
    /\ UNCHANGED <<op, args>>

SensitivityAnalysis ==
    /\ op = "sensitivity_analysis"
    /\ calls < MaxCalls
    /\ result' = sensitivity_analysis(args.cash_flow, args.discount_rate_range)
    /\ calls' = calls + 1
    /\ UNCHANGED <<op, args>>

Next ==
    \/ PresentValue
    \/ FutureValue
    \/ SimulatePortfolio
    \/ CalculateNpv
    \/ SensitivityAnalysis

Spec == Init /\ [][Next]_vars

\* The call has returned or raised at least once.
Called(o) == op = o /\ calls >= 1

---------------------------------------------------------------------------
(* The driver's report format.                                             *)

\* f"{x:.2f}": x rounded to hundredths, ties to even; the result in hundredths.
Round2(x) ==
    LET scaled == x[1] * 100
        q == scaled \div x[2]
        r == scaled % x[2]
    IN  IF 2 * r > x[2] \/ (2 * r = x[2] /\ q % 2 = 1) THEN q + 1 ELSE q

---------------------------------------------------------------------------
(* Properties.                                                             *)

Supported == {"Stock", "Bond", "Option"}

\* base * factor * ... * factor, n factors, one multiplication at a time.
RECURSIVE Compound(_, _, _)
Compound(base, factor, n) ==
    IF n = 0 THEN base ELSE RMul(Compound(base, factor, n - 1), factor)

\* C1: present_value returns current_price for a Stock, the quotient
\* face_value / (1 + coupon_rate) for a Bond (the number q with
\* q * (1 + coupon_rate) = face_value, wherever that quotient exists) and 0
\* for an Option.
C1_PresentValueDispatch ==
    Called("present_value") =>
        LET fi == args.financial_instrument
        IN  /\ fi.cls = "Stock" => result = Val(fi.current_price)
            /\ (fi.cls = "Bond" /\ RAdd(One, fi.coupon_rate) # Zero) =>
                   /\ result.kind = "value"
                   /\ RMul(result.val, RAdd(One, fi.coupon_rate)) = fi.face_value
            /\ fi.cls = "Option" => result = Val(Zero)

C1_Witness ==
    /\ Called("present_value")
    /\ args.financial_instrument = Bond("XYZ", Num(2), <<1, 2>>)
    /\ result = Val(<<4, 3>>)

\* C2: future_value returns current_price * 1.05^periods for a Stock,
\* face_value * (1 + coupon_rate)^periods for a Bond and 0 for an Option; at
\* periods = 0 the Stock's price and the Bond's face value come back unchanged,
\* also for coupon_rate = -1.
C2_FutureValue ==
    Called("future_value") =>
        LET fi == args.financial_instrument
            n == args.time_period
        IN  /\ fi.cls = "Stock" =>
                   /\ result = Val(Compound(fi.current_price, <<21, 20>>, n))
                   /\ n = 0 => result = Val(fi.current_price)
            /\ fi.cls = "Bond" =>
                   /\ result = Val(Compound(fi.face_value, RAdd(One, fi.coupon_rate), n))
                   /\ n = 0 => result = Val(fi.face_value)
            /\ fi.cls = "Option" => result = Val(Zero)

C2_Witness ==
    /\ Called("future_value")
    /\ args.financial_instrument = Bond("XYZ", Num(2), Num(-1))
    /\ args.time_period = 0
    /\ result = Val(Num(2))

\* The present values of a portfolio added one after the other, from 0.
RECURSIVE LeftSum(_)
LeftSum(portfolio) ==
    IF portfolio = <<>> THEN Zero
    ELSE RAdd(LeftSum(SubSeq(portfolio, 1, Len(portfolio) - 1)),
              present_value(portfolio[Len(portfolio)]).val)

AllValued(portfolio) ==
    \A i \in 1..Len(portfolio) : present_value(portfolio[i]).kind = "value"

\* C3: simulate_portfolio returns the present values of the elements summed
\* left to right from 0, one term per occurrence; 0 for the empty portfolio and
\* present_value(s) for the portfolio [s].  (Stated for the portfolios whose
\* elements all have a present value.)
C3_SimulatePortfolioSum ==
    (Called("simulate_portfolio") /\ AllValued(args.portfolio)) =>
        /\ result = Val(LeftSum(args.portfolio))
        /\ args.portfolio = <<>> => result = Val(Zero)
        /\ Len(args.portfolio) = 1 => result = present_value(args.portfolio[1])

C3_Witness ==
    /\ Called("simulate_portfolio")
    /\ args.portfolio = <<Stock("AAPL", Num(2)), Stock("AAPL", Num(2)),
                          Bond("XYZ", Num(2), <<-1, 2>>)>>
    /\ result = Val(Num(8))

\* The sum over k = from..Len(cash_flow) of cash_flow[k] * q^(Len(cash_flow) - k).
RECURSIVE ScaledSum(_, _, _)
ScaledSum(cash_flow, q, from) ==
    IF from > Len(cash_flow) THEN Zero
    ELSE RAdd(RMul(cash_flow[from], Compound(One, q, Len(cash_flow) - from)),
              ScaledSum(cash_flow, q, from + 1))

\* C4: for discount_rate # -1, calculate_npv is the sum of
\* cash_flow[i] / (1 + discount_rate)^i, i from 0 (stated multiplied through by
\* (1 + discount_rate)^(len - 1)); 0 for the empty cash flow and cash_flow[0]
\* for a cash flow of length 1 at any non-negative rate.
C4_NpvFormula ==
    (Called("calculate_npv") /\ args.discount_rate # Num(-1)) =>
        LET cf == args.cash_flow
            q == RAdd(One, args.discount_rate)
        IN  /\ result.kind = "value"
            /\ cf = <<>> => result = Val(Zero)
            /\ cf # <<>> =>
                   RMul(result.val, Compound(One, q, Len(cf) - 1)) = ScaledSum(cf, q, 1)
            /\ (Len(cf) = 1 /\ args.discount_rate[1] >= 0) => result = Val(cf[1])

C4_Witness ==
    /\ Called("calculate_npv")
    /\ args.cash_flow = <<Num(-2), Num(2), Num(2)>>
    /\ args.discount_rate = One
    /\ result = Val(<<-1, 2>>)

FirstIndex(seq, x) == CHOOSE i \in 1..Len(seq) : seq[i] = x /\ \A j \in 1..(i - 1) : seq[j] # x

\* C5: the dict sensitivity_analysis returns has one item per distinct rate
\* of discount_rate_range and no other key, each value is calculate_npv of
\* its rate, and the items are in the order of the rates' first occurrences.
C5_SensitivityMapping ==
    (Called("sensitivity_analysis") /\ result.kind = "value") =>
        LET d == result.val
            rr == args.discount_rate_range
            rates == {rr[i] : i \in 1..Len(rr)}
        IN  /\ DictKeys(d) = rates
            /\ Len(d) = Cardinality(rates)
            /\ \A i \in 1..Len(d) : Val(d[i][2]) = calculate_npv(args.cash_flow, d[i][1])
            /\ \A i, j \in 1..Len(d) :
                   i < j => FirstIndex(rr, d[i][1]) < FirstIndex(rr, d[j][1])

C5_Witness ==
    /\ Called("sensitivity_analysis")
    /\ args.cash_flow = <<Num(-2), Num(0), Num(2)>>
    /\ args.discount_rate_range = <<One, Zero, One>>
    /\ result = Val(<< <<One, <<-3, 2>>>>, <<Zero, Zero>> >>)

IsExample ==
    /\ Called("calculate_npv")
    /\ args.cash_flow = ExampleCashFlow
    /\ args.discount_rate = ExampleRate

\* C6 as claimed: calculate_npv([-100, 20, 30, 40, 50], 0.10) rounds to 11.92.
C6_RoundsTo1192 ==
    IsExample => (result.kind = "value" /\ Round2(result.val) = 1192)

\* C6 as amended: calculate_npv([-100, 20, 30, 40, 50], 0.10) rounds to 7.18.
C6_RoundsTo718 ==
    IsExample => (result.kind = "value" /\ Round2(result.val) = 718)

C6_Witness ==
    IsExample /\ result = Val(<<105100, 14641>>)

\* C7: present_value and future_value fail with UnsupportedVariant for an
\* instrument that is none of Stock, Bond, Option.
C7_UnsupportedVariantFails ==
    ((Called("present_value") \/ Called("future_value"))
        /\ args.financial_instrument.cls \notin Supported) =>
        result.kind = "UnsupportedVariant"

\* C8: present_value returns a number for every Stock, Bond and Option, and
\* simulate_portfolio for every portfolio of them; neither call fails.
C8_Total ==
    /\ (Called("present_value") /\ args.financial_instrument.cls \in Supported) =>
           result.kind = "value"
    /\ (Called("simulate_portfolio")
           /\ \A i \in 1..Len(args.portfolio) : args.portfolio[i].cls \in Supported) =>
           result.kind = "value"

C10_DegenerateRate ==
    (Called("calculate_npv") /\ args.discount_rate = Num(-1)) =>
        LET cf == args.cash_flow
        IN  /\ result.kind \in {"value", "ZeroDivisionError"}
            /\ result.kind = "ZeroDivisionError" <=> Len(cf) >= 2
            /\ cf = <<>> => result = Val(Zero)
            /\ Len(cf) = 1 => result = Val(cf[1])

C10_Witness ==
    /\ Called("calculate_npv")
    /\ args.discount_rate = Num(-1)
    /\ args.cash_flow = <<Num(1), Zero>>
    /\ result = Raise("ZeroDivisionError")

===========================================================================
